---- MODULE Spec2Model ----
(***************************************************************************)
(* Cross-process GPU arbitration of bellman (src/gpu/locks.rs): the two    *)
(* advisory file locks GPULock and PriorityLock, the poll                  *)
(* PriorityLock::should_break, and the locked_kernel! wrapper (new, free,  *)
(* with).  Each process is one thread owning one locked kernel.            *)
(*                                                                         *)
(* An advisory lock (fs2 / flock) is modelled by the set of open file      *)
(* handles that currently hold it; a handle is <<process, kind>>, kind     *)
(* being "lock" (a GPULock / PriorityLock value), "poll" (the temporary    *)
(* File inside should_break) or "kernel" (the GPULock a kernel owns).      *)
(***************************************************************************)
EXTENDS Naturals, FiniteSets

\* Number of cooperating processes.
NumProcs == 2
Procs == 1..NumProcs

\* Option<Kernel>: None, or Some kernel, told from its predecessor by its
\* identity 1 or 2.
None == 0

\* GPUResult<R> as seen by the wrapper: Ok(_), Err(GPUTaken) or another Err.
Results == {"Ok", "GPUTaken", "Other"}

VARIABLES
    gpuHolders,   \* handles holding the exclusive lock on bellman.gpu.lock
    prioHolders,  \* handles holding the exclusive lock on bellman.priority.lock
    pc,           \* position of each process
    priority,     \* self.priority of each process's locked kernel
    kernel,       \* self.kernel of each process's locked kernel
    sb,           \* value of should_break in the current with()
    ret,          \* value the current with() returned, "none" while running
    opRes,        \* what f(k) returned in the current with(), or "none"
    everSome,     \* the construct function has returned Some(kernel)
    nCons,        \* calls of the construct function in the current with()
    nOps,         \* invocations of f in the current with()
    kStart,       \* self.kernel when the current with() began
    kInv,         \* the kernel handed to f in the current with()
    prevTaken,    \* f returned GPUTaken in the with() before the current one
    prevYield,    \* the with() before the current one saw should_break true
                  \* and dropped the cached kernel (recorded by Protocol only)
    heldThrough   \* the resource has priority = false and a PriorityLock of
                  \* another process was held from the start of the current
                  \* with() up to now (its return)

vars == <<gpuHolders, prioHolders, pc, priority, kernel, sb, ret, opRes,
          everSome, nCons, nOps, kStart, kInv, prevTaken, prevYield,
          heldThrough>>

locks == <<gpuHolders, prioHolders>>
hist == <<nCons, nOps, kStart, kInv, prevTaken, prevYield>>

LockHandle(p) == <<p, "lock">>
PollHandle(p) == <<p, "poll">>
KernelHandle(p) == <<p, "kernel">>

\* Granted, were the locks taken shared (lock_shared) instead of exclusive.
Granted_shared(holders) == TRUE

\* flock(LOCK_EX) is granted to a handle only while no handle holds the lock.
Granted(holders) == holders = {}

\* Closing a handle releases the lock it holds.
Close(holders, h) == holders \ {h}

\* Some process other than p owns a PriorityLock value.
OtherPriorityLock(p) == \E q \in Procs \ {p} : LockHandle(q) \in prioHolders

Init ==
    /\ gpuHolders = {}
    /\ prioHolders = {}
    /\ pc = [p \in Procs |-> "start"]
    /\ priority = [p \in Procs |-> FALSE]
    /\ kernel = [p \in Procs |-> None]
    /\ sb = [p \in Procs |-> FALSE]
    /\ ret = [p \in Procs |-> "none"]
    /\ opRes = [p \in Procs |-> "none"]
    /\ everSome = [p \in Procs |-> FALSE]
    /\ nCons = [p \in Procs |-> 0]
    /\ nOps = [p \in Procs |-> 0]
    /\ kStart = [p \in Procs |-> None]
    /\ kInv = [p \in Procs |-> None]
    /\ prevTaken = [p \in Procs |-> FALSE]
    /\ prevYield = [p \in Procs |-> FALSE]
    /\ heldThrough = [p \in Procs |-> FALSE]

\* new, were the kernel constructed at once instead of on the first with().
new_eager(p, b) ==
    /\ pc[p] = "start"
    /\ priority' = [priority EXCEPT ![p] = b]
    /\ kernel' = [kernel EXCEPT ![p] = IF gpuHolders = {} THEN 1 ELSE None]
    /\ gpuHolders' = IF gpuHolders = {} THEN {<<p, "kernel">>} ELSE gpuHolders
    /\ pc' = [pc EXCEPT ![p] = "idle"]
    /\ UNCHANGED <<prioHolders, sb, ret, opRes, everSome, hist, heldThrough>>

\* $class::new(priority)
new(p, b) ==
    /\ pc[p] = "start"
    /\ priority' = [priority EXCEPT ![p] = b]
    /\ kernel' = [kernel EXCEPT ![p] = None]
    /\ pc' = [pc EXCEPT ![p] = "idle"]
    /\ UNCHANGED <<locks, sb, ret, opRes, everSome, hist, heldThrough>>

\* with() is running in process p.
InWith(p) == pc[p] \in {"unlock", "branch", "inop"}

\* GPULock::lock() is entered: the caller now waits in f.lock_exclusive().
\* Callers do not ask for a lock their own process already holds.
GPULock_lock_call(p) ==
    /\ pc[p] = "idle"
    /\ LockHandle(p) \notin gpuHolders
    /\ KernelHandle(p) \notin gpuHolders
    /\ pc' = [pc EXCEPT ![p] = "gpu_wait"]
    /\ UNCHANGED <<locks, priority, kernel, sb, ret, opRes, everSome, hist,
                   heldThrough>>

\* GPULock::lock() returns the GPULock.
GPULock_lock(p) ==
    /\ pc[p] = "gpu_wait"
    /\ Granted(gpuHolders)
    /\ gpuHolders' = gpuHolders \cup {LockHandle(p)}
    /\ pc' = [pc EXCEPT ![p] = "idle"]
    /\ UNCHANGED <<prioHolders, priority, kernel, sb, ret, opRes, everSome,
                   hist, heldThrough>>

\* A GPULock is dropped: its File is closed.
GPULock_drop(p) ==
    /\ pc[p] = "idle"
    /\ LockHandle(p) \in gpuHolders
    /\ gpuHolders' = Close(gpuHolders, LockHandle(p))
    /\ UNCHANGED <<prioHolders, pc, priority, kernel, sb, ret, opRes,
                   everSome, hist, heldThrough>>

\* PriorityLock::lock() is entered: the caller now waits in f.lock_exclusive().
PriorityLock_lock_call(p) ==
    /\ pc[p] = "idle"
    /\ LockHandle(p) \notin prioHolders
    /\ pc' = [pc EXCEPT ![p] = "prio_wait"]
    /\ UNCHANGED <<locks, priority, kernel, sb, ret, opRes, everSome, hist,
                   heldThrough>>

\* PriorityLock_lock, were it to return without waiting for the holder.
PriorityLock_lock_nowait(p) ==
    /\ pc[p] = "prio_wait"
    /\ prioHolders' = prioHolders \cup {LockHandle(p)}
    /\ pc' = [pc EXCEPT ![p] = "idle"]
    /\ UNCHANGED <<gpuHolders, priority, kernel, sb, ret, opRes, everSome,
                   hist, heldThrough>>

\* PriorityLock::lock() returns the PriorityLock.
PriorityLock_lock(p) ==
    /\ pc[p] = "prio_wait"
    /\ Granted(prioHolders)
    /\ prioHolders' = prioHolders \cup {LockHandle(p)}
    /\ pc' = [pc EXCEPT ![p] = "idle"]
    /\ UNCHANGED <<gpuHolders, priority, kernel, sb, ret, opRes, everSome,
                   hist, heldThrough>>

\* A PriorityLock is dropped: its File is closed.
PriorityLock_drop(p) ==
    /\ pc[p] = "idle"
    /\ LockHandle(p) \in prioHolders
    /\ prioHolders' = Close(prioHolders, LockHandle(p))
    /\ heldThrough' = [q \in Procs |-> IF InWith(q) THEN FALSE ELSE heldThrough[q]]
    /\ UNCHANGED <<gpuHolders, pc, priority, kernel, sb, ret, opRes,
                   everSome, hist>>

\* should_break, were the test of priority left out.
should_break_no_exempt(pr, holders) == ~Granted(holders)

\* should_break, were is_ok() written for is_err().
should_break_inverted(pr, holders) == ~pr /\ Granted(holders)

\* PriorityLock::should_break(priority), holders being the handles that hold
\* the priority lock when try_lock_exclusive is made.
should_break(pr, holders) == ~pr /\ ~Granted(holders)

\* should_break's temporary File obtains the lock: try_lock_exclusive is
\* reached (priority is false) and is granted.
poll_locks(pr, holders) == ~pr /\ Granted(holders)

\* with_should_break, were lock_exclusive written for try_lock_exclusive:
\* the poll waits for the priority lock.
with_should_break_blocking(p) ==
    /\ pc[p] = "idle"
    /\ priority[p] \/ Granted(prioHolders)
    /\ sb' = [sb EXCEPT ![p] = FALSE]
    /\ IF ~priority[p]
       THEN /\ prioHolders' = prioHolders \cup {PollHandle(p)}
            /\ pc' = [pc EXCEPT ![p] = "unlock"]
       ELSE /\ UNCHANGED prioHolders
            /\ pc' = [pc EXCEPT ![p] = "branch"]
    /\ kStart' = [kStart EXCEPT ![p] = kernel[p]]
    /\ heldThrough' = [heldThrough EXCEPT ![p] =
                          ~priority[p] /\ OtherPriorityLock(p)]
    /\ UNCHANGED <<gpuHolders, priority, kernel, everSome, ret, opRes, nCons,
                   nOps, kInv, prevTaken, prevYield>>

\* with() begins and evaluates PriorityLock::should_break(self.priority) up
\* to the result of try_lock_exclusive.
with_should_break(p) ==
    /\ pc[p] = "idle"
    /\ sb' = [sb EXCEPT ![p] = should_break(priority[p], prioHolders)]
    /\ IF poll_locks(priority[p], prioHolders)
       THEN /\ prioHolders' = prioHolders \cup {PollHandle(p)}
            /\ pc' = [pc EXCEPT ![p] = "unlock"]
       ELSE /\ UNCHANGED prioHolders
            /\ pc' = [pc EXCEPT ![p] = "branch"]
    /\ kStart' = [kStart EXCEPT ![p] = kernel[p]]
    /\ heldThrough' = [heldThrough EXCEPT ![p] =
                          ~priority[p] /\ OtherPriorityLock(p)]
    /\ UNCHANGED <<gpuHolders, priority, kernel, everSome, ret, opRes, nCons,
                   nOps, kInv, prevTaken, prevYield>>

\* should_break_drop, were the temporary File kept open after the poll.
should_break_drop_leak(p) ==
    /\ pc[p] = "unlock"
    /\ pc' = [pc EXCEPT ![p] = "branch"]
    /\ UNCHANGED <<locks, priority, kernel, sb, ret, opRes, everSome, hist,
                   heldThrough>>

\* should_break's temporary File is dropped, releasing the momentary lock.
should_break_drop(p) ==
    /\ pc[p] = "unlock"
    /\ prioHolders' = Close(prioHolders, PollHandle(p))
    /\ pc' = [pc EXCEPT ![p] = "branch"]
    /\ UNCHANGED <<gpuHolders, priority, kernel, sb, ret, opRes, everSome,
                   hist, heldThrough>>

\* free, were the kernel looked at but not taken.
free_keep(k) == k

\* free(): self.kernel.take(), the taken kernel being dropped.
free(k) == None

\* The construct function ($func: create_fft_kernel, create_multiexp_kernel):
\* the outcomes of one call, TRUE standing for Some(kernel).  It makes a
\* non-blocking attempt at the GPU lock, which the kernel then owns.
func(holders) == IF Granted(holders) THEN {TRUE, FALSE} ELSE {FALSE}

\* The identity of a newly constructed kernel: not that of the kernel k0
\* that was cached when the call began.
fresh(k0) == IF k0 = 1 THEN 2 ELSE 1

\* The GPU lock after self.kernel went from k to k2: a dropped kernel closes
\* the GPULock it owns, a constructed one holds it.
kernel_lock(holders, p, k, k2) ==
    IF k2 = None THEN Close(holders, KernelHandle(p))
    ELSE IF k = None THEN holders \cup {KernelHandle(p)}
    ELSE holders

\* with_kernel, were the else if a plain if: construction is attempted after
\* free() as well.
with_kernel_rebuild(yield, k, some, k0) ==
    IF yield \/ k = None THEN <<IF some THEN fresh(k0) ELSE None, 1>>
    ELSE <<k, 0>>

\* with_kernel, were the else if branch missing: an absent kernel is never
\* constructed.
with_kernel_no_construct(yield, k, some, k0) ==
    IF yield THEN <<free(k), 0>> ELSE <<k, 0>>

\* with_kernel, were the test self.kernel.is_none() missing: a kernel is
\* constructed on every call that does not yield.
with_kernel_always(yield, k, some, k0) ==
    IF yield THEN <<free(k), 0>>
    ELSE <<IF some THEN fresh(k0) ELSE None, 1>>

\* with(): the if / else if on should_break and self.kernel.is_none(), given
\* the outcome some of the construct function, should it be called:
\* <<self.kernel, number of calls of the construct function>>.
with_kernel(yield, k, some, k0) ==
    IF yield THEN <<free(k), 0>>
    ELSE IF k = None THEN <<IF some THEN fresh(k0) ELSE None, 1>>
    ELSE <<k, 0>>

\* unavailable, were another error kind returned.
unavailable_other == "Other"

\* with(): Err(GPUError::GPUTaken), returned when self.kernel is None.
unavailable == "GPUTaken"

\* with() from should_break's result on: the kernel is freed or constructed;
\* then f(k) is called on a present kernel, and Err(GPUError::GPUTaken) is
\* returned on an absent one.  The construct function, if called, sees the
\* GPU lock as any free() before it left it.
with_branch(p) ==
    /\ pc[p] = "branch"
    /\ \E some \in func(kernel_lock(gpuHolders, p, kernel[p],
                                    IF sb[p] THEN free(kernel[p]) ELSE kernel[p])) :
         LET r == with_kernel(sb[p], kernel[p], some, kStart[p])
         IN /\ kernel' = [kernel EXCEPT ![p] = r[1]]
            /\ nCons' = [nCons EXCEPT ![p] = @ + r[2]]
            /\ everSome' = [everSome EXCEPT ![p] = @ \/ (r[2] > 0 /\ some)]
            /\ gpuHolders' = kernel_lock(gpuHolders, p, kernel[p], r[1])
            /\ IF r[1] # None
               THEN /\ nOps' = [nOps EXCEPT ![p] = @ + 1]
                    /\ kInv' = [kInv EXCEPT ![p] = r[1]]
                    /\ pc' = [pc EXCEPT ![p] = "inop"]
                    /\ UNCHANGED ret
               ELSE /\ ret' = [ret EXCEPT ![p] = unavailable]
                    /\ pc' = [pc EXCEPT ![p] = "done"]
                    /\ UNCHANGED <<nOps, kInv>>
    /\ UNCHANGED <<prioHolders, priority, sb, opRes, kStart, prevTaken, prevYield,
                   heldThrough>>

\* after_op, were the kernel freed on every error.
after_op_any_err(res, k) == IF res # "Ok" THEN free(k) ELSE k

\* after_op, were the kernel kept on GPUTaken as well.
after_op_keep(res, k) == k

\* with(): the kernel after f(k) returned res.
after_op(res, k) == IF res = "GPUTaken" THEN free(k) ELSE k

\* with_result, were every error of f reported as GPUTaken.
with_result_masked(res) == IF res = "Ok" THEN res ELSE "GPUTaken"

\* with(): the value returned once f(k) returned res.
with_result(res) == res

\* with(): f(k) returns res; on Err(GPUTaken) the kernel is freed; res is
\* returned.
with_return(p, res) ==
    /\ pc[p] = "inop"
    /\ opRes' = [opRes EXCEPT ![p] = res]
    /\ kernel' = [kernel EXCEPT ![p] = after_op(res, kernel[p])]
    /\ gpuHolders' = kernel_lock(gpuHolders, p, kernel[p], kernel'[p])
    /\ ret' = [ret EXCEPT ![p] = with_result(res)]
    /\ pc' = [pc EXCEPT ![p] = "done"]
    /\ UNCHANGED <<prioHolders, priority, sb, everSome, hist, heldThrough>>

\* The caller has the value with() returned; the record of the call is
\* put away, but for whether f returned GPUTaken in it.
with_end_base(p) ==
    /\ pc[p] = "done"
    /\ pc' = [pc EXCEPT ![p] = "idle"]
    /\ prevTaken' = [prevTaken EXCEPT ![p] = (opRes[p] = "GPUTaken")]
    /\ sb' = [sb EXCEPT ![p] = FALSE]
    /\ ret' = [ret EXCEPT ![p] = "none"]
    /\ opRes' = [opRes EXCEPT ![p] = "none"]
    /\ nCons' = [nCons EXCEPT ![p] = 0]
    /\ nOps' = [nOps EXCEPT ![p] = 0]
    /\ kStart' = [kStart EXCEPT ![p] = None]
    /\ kInv' = [kInv EXCEPT ![p] = None]
    /\ heldThrough' = [heldThrough EXCEPT ![p] = FALSE]
    /\ UNCHANGED <<locks, priority, kernel, everSome>>

with_end(p) == with_end_base(p) /\ UNCHANGED prevYield

\* with_end, keeping as well whether the call was preempted.
with_end_traced(p) ==
    /\ with_end_base(p)
    /\ prevYield' = [prevYield EXCEPT ![p] = (sb[p] /\ kStart[p] # None)]

Next ==
    \E p \in Procs :
        \/ \E b \in BOOLEAN : new(p, b)
        \/ GPULock_lock_call(p)
        \/ GPULock_lock(p)
        \/ GPULock_drop(p)
        \/ PriorityLock_lock_call(p)
        \/ PriorityLock_lock(p)
        \/ PriorityLock_drop(p)
        \/ with_should_break(p)
        \/ should_break_drop(p)
        \/ with_branch(p)
        \/ \E res \in Results : with_return(p, res)
        \/ with_end(p)

Spec == Init /\ [][Next]_vars

(***************************************************************************)
(* The protocol the locks are made for.  A process whose resource has      *)
(* priority = true is a contender: it takes the PriorityLock, then the     *)
(* GPULock, and drops them.  A process whose resource has priority = false *)
(* is a worker: it calls with() again and again.                           *)
(***************************************************************************)
contender(p) ==
    /\ priority[p]
    /\ \/ LockHandle(p) \notin gpuHolders /\ PriorityLock_lock_call(p)
       \/ PriorityLock_lock(p)
       \/ LockHandle(p) \in prioHolders /\ GPULock_lock_call(p)
       \/ GPULock_lock(p)
       \/ GPULock_drop(p)
       \/ PriorityLock_drop(p)

\* One step of with() in process p, f returning included.
with_step(p) ==
    \/ with_should_break(p)
    \/ should_break_drop(p)
    \/ with_branch(p)
    \/ \E res \in Results : with_return(p, res)
    \/ with_end_traced(p)

worker(p) == ~priority[p] /\ with_step(p)

ProtocolNext ==
    \E p \in Procs :
        \/ \E b \in BOOLEAN : new(p, b)
        \/ contender(p)
        \/ worker(p)

\* Every worker keeps calling with(), the construct function and f return,
\* and a waiting lock() is granted a lock that stays free.
Protocol ==
    /\ Init
    /\ [][ProtocolNext]_vars
    /\ \A p \in Procs :
         /\ WF_vars(worker(p))
         /\ WF_vars(GPULock_lock(p))
         /\ WF_vars(PriorityLock_lock(p))

\* with() has returned in process p.
Returned(p) == pc[p] = "done"

(***************************************************************************)
(* Properties                                                              *)
(***************************************************************************)

\* C1: each of the two locks is held by at most one handle at a time, over
\* all processes; so a blocking lock() never returns while another handle
\* on the same lock is alive.
C1_MutualExclusion ==
    /\ \A g, h \in gpuHolders : g = h
    /\ \A g, h \in prioHolders : g = h

\* C1 witness: on both locks a second lock() is waiting while the first
\* handle is alive.
C1_Witness ==
    /\ \E p, q \in Procs :
         p # q /\ LockHandle(p) \in gpuHolders /\ pc[q] = "gpu_wait"
    /\ \E p, q \in Procs :
         p # q /\ LockHandle(p) \in prioHolders /\ pc[q] = "prio_wait"

\* C2: no two processes have a cached kernel at the same time.
C2_AcceleratorExclusivity ==
    \A p, q \in Procs : p # q => ~(kernel[p] # None /\ kernel[q] # None)

\* C2 witness: a process called the construct function while another
\* process had its kernel, and got None.
C2_Witness ==
    \E p, q \in Procs :
        /\ p # q
        /\ kernel[p] # None
        /\ Returned(q) /\ nCons[q] = 1 /\ kernel[q] = None

\* C3: when a with() of a priority = false resource returns and another
\* process held the priority lock during the whole call, the cached kernel
\* is absent and the GPU lock it held is released.
C3_PriorityPrecedence ==
    \A p \in Procs :
        Returned(p) /\ heldThrough[p] =>
            kernel[p] = None /\ KernelHandle(p) \notin gpuHolders

\* C3 witness: such a call has returned on a resource whose kernel was
\* cached when it began.
C3_Witness ==
    \E p \in Procs :
        /\ Returned(p) /\ heldThrough[p] /\ ~priority[p]
        /\ kStart[p] # None
        /\ OtherPriorityLock(p)

\* C4: should_break(true) is false whatever handles hold the priority lock,
\* and no with() of a priority = true resource sees should_break true.
C4_GateSelfExemption ==
    /\ should_break(TRUE, prioHolders) = FALSE
    /\ \A p \in Procs : priority[p] => ~sb[p]

\* C4 witness: a priority = true resource has evaluated should_break in a
\* with() and another process holds the priority lock.
C4_Witness ==
    \E p \in Procs :
        priority[p] /\ pc[p] = "branch" /\ OtherPriorityLock(p)

\* C5: should_break(false) returns true exactly when some handle holds the
\* priority lock at the time of the try; so it returns false again once
\* that handle is dropped and no other has taken the lock.
C5_GateDetection ==
    [][\A p \in Procs :
          (pc[p] = "idle" /\ pc'[p] \in {"unlock", "branch"} /\ ~priority[p])
              => (sb'[p] = (prioHolders # {}))]_vars

\* C5 witness: one priority = false process got true while the lock was
\* held, and another, polling after the lock was free again, got false.
C5_Witness ==
    \E p, q \in Procs :
        /\ p # q
        /\ ~priority[p] /\ pc[p] = "branch" /\ sb[p]
        /\ ~priority[q] /\ pc[q] = "unlock" /\ ~sb[q]

\* C6: a with() of a priority = false resource that began with a cached
\* kernel and saw should_break true does not invoke f and leaves the cache
\* absent.
C6_PreemptionCollapsesCache ==
    \A p \in Procs :
        (~priority[p] /\ kStart[p] # None /\ sb[p]) =>
            /\ pc[p] # "inop"
            /\ nOps[p] = 0
            /\ Returned(p) => kernel[p] = None

\* C6 witness: such a call has returned.
C6_Witness ==
    \E p \in Procs :
        Returned(p) /\ ~priority[p] /\ kStart[p] # None /\ sb[p]

\* C7 as claimed: a with() that saw should_break true has called the
\* construct function by the time it returns.
C7_YieldStillConstructs ==
    \A p \in Procs : Returned(p) /\ sb[p] => nCons[p] = 1

\* C7 as amended: a with() that saw should_break true drops any cached
\* kernel, does not call the construct function, does not invoke f, and
\* returns GPUTaken with the cache absent.
C7_YieldSkipsConstruction ==
    \A p \in Procs :
        Returned(p) /\ sb[p] =>
            /\ nCons[p] = 0
            /\ nOps[p] = 0
            /\ ret[p] = "GPUTaken"
            /\ kernel[p] = None

\* C7 witness: a with() that saw should_break true has returned while no
\* handle holds the GPU lock, so that a construction could have succeeded.
C7_Witness ==
    \E p \in Procs : Returned(p) /\ sb[p] /\ Granted(gpuHolders)

\* C8 as claimed: when f returns GPUTaken the cache is absent on return, and
\* the next with() calls the construct function.
C8_ReconstructionAfterTaken ==
    \A p \in Procs :
        /\ Returned(p) /\ opRes[p] = "GPUTaken" => kernel[p] = None
        /\ Returned(p) /\ prevTaken[p] => nCons[p] = 1

\* C8 as amended: when f returns GPUTaken the cache is absent on return, and
\* the next with() calls the construct function unless it sees should_break
\* true, in which case it returns GPUTaken without constructing.
C8_ReconstructionUnlessYield ==
    \A p \in Procs :
        /\ Returned(p) /\ opRes[p] = "GPUTaken" => kernel[p] = None
        /\ Returned(p) /\ prevTaken[p] =>
              IF sb[p] THEN nCons[p] = 0 /\ ret[p] = "GPUTaken"
              ELSE nCons[p] = 1

\* C8 witness: the with() after one in which f returned GPUTaken has called
\* the construct function and got a kernel.
C8_Witness ==
    \E p \in Procs :
        Returned(p) /\ prevTaken[p] /\ nCons[p] = 1 /\ kernel[p] # None

\* C9: as long as the construct function has returned None on every call,
\* f is never invoked, the cache is absent, and every with() returns GPUTaken.
C9_IdempotentUnavailability ==
    \A p \in Procs :
        ~everSome[p] =>
            /\ pc[p] # "inop"
            /\ nOps[p] = 0
            /\ kernel[p] = None
            /\ Returned(p) => ret[p] = "GPUTaken"

\* C9 witness: a with() called the construct function, got None as on every
\* call before, and has returned.
C9_Witness ==
    \E p \in Procs :
        Returned(p) /\ ~everSome[p] /\ nCons[p] = 1 /\ Granted(gpuHolders)

\* C10: when f was invoked and returned Ok or an error other than GPUTaken,
\* the kernel it was given is still the cached kernel when with() returns.
C10_CacheUntouched ==
    \A p \in Procs :
        (Returned(p) /\ nOps[p] = 1 /\ opRes[p] \in {"Ok", "Other"}) =>
            kernel[p] # None /\ kernel[p] = kInv[p]

\* C10 witness: with() has returned an error other than GPUTaken that f
\* returned, on a kernel that was cached when the call began.
C10_Witness ==
    \E p \in Procs :
        Returned(p) /\ nOps[p] = 1 /\ opRes[p] = "Other" /\ kStart[p] # None

\* C11: whenever with() invoked f, the value it returns is the value f
\* returned, GPUTaken included: the teardown changes the cache only.
C11_ErrorsNotSwallowed ==
    \A p \in Procs : Returned(p) /\ nOps[p] = 1 => ret[p] = opRes[p]

\* C11 witness: f returned GPUTaken on a kernel cached before the call; the
\* call returned it and the cache is absent.
C11_Witness ==
    \E p \in Procs :
        /\ Returned(p) /\ nOps[p] = 1 /\ kStart[p] # None
        /\ opRes[p] = "GPUTaken" /\ kernel[p] = None

\* C12: the with() after a preempted one, if it sees should_break false
\* (the priority lock is free again), calls the construct function; if that
\* gives a kernel, f is invoked on it and its result returned, the kernel
\* staying cached unless f returned GPUTaken; if not, GPUTaken is returned.
C12_RecoveryAfterPreemption ==
    \A p \in Procs :
        Returned(p) /\ prevYield[p] /\ ~sb[p] =>
            /\ kStart[p] = None
            /\ nCons[p] = 1
            /\ IF nOps[p] = 1
               THEN /\ ret[p] = opRes[p]
                    /\ kInv[p] # None
                    /\ opRes[p] # "GPUTaken" => kernel[p] = kInv[p]
               ELSE ret[p] = "GPUTaken" /\ kernel[p] = None

\* C12 witness: a worker that was preempted has called with() again with
\* the priority lock free, and it returned Ok with a kernel cached.
C12_Witness ==
    \E p \in Procs :
        /\ Returned(p) /\ prevYield[p] /\ ~priority[p] /\ ~sb[p]
        /\ ret[p] = "Ok" /\ kernel[p] # None
        /\ prioHolders = {}

\* C13: should_break leaves nothing behind: a poll's temporary File holds
\* the priority lock only between its try_lock_exclusive and its drop, and
\* never for a priority = true caller; so once polls have returned, the
\* lock is held by PriorityLock values alone.
C13_PollLeavesNoResidue ==
    /\ \A p \in Procs :
         PollHandle(p) \in prioHolders => pc[p] = "unlock" /\ ~priority[p]
    /\ \A h \in prioHolders : h[2] \in {"lock", "poll"}

\* C13 witness: a worker's poll took the lock and returned, and afterwards
\* a blocking PriorityLock::lock() of another process was granted.
C13_Witness ==
    \E p, q \in Procs :
        /\ p # q
        /\ ~priority[p] /\ ~sb[p] /\ pc[p] \in {"branch", "inop", "done"}
        /\ prioHolders = {LockHandle(q)}

rank(c) == CASE c = "idle" -> 4 [] c = "unlock" -> 3 [] c = "branch" -> 2
             [] c = "inop" -> 1 [] OTHER -> 0

\* C14: with() never waits: whoever holds the two locks, with() can begin,
\* and each step of a running with() can be taken (f returning included);
\* and every step brings the call nearer its return.
C14_NonBlocking ==
    /\ [](\A p \in Procs :
            /\ pc[p] = "idle" => ENABLED with_should_break(p)
            /\ pc[p] = "unlock" => ENABLED should_break_drop(p)
            /\ pc[p] = "branch" => ENABLED with_branch(p)
            /\ pc[p] = "inop" => ENABLED with_return(p, "Ok"))
    /\ [][\A p \in Procs :
            (pc[p] \in {"unlock", "branch", "inop"} /\ pc'[p] # pc[p])
                => rank(pc'[p]) < rank(pc[p])]_vars

\* C14 witness: a with() has returned while another process held the
\* priority lock during the whole call and holds the GPU lock.
C14_Witness ==
    \E p, q \in Procs :
        /\ p # q
        /\ Returned(p) /\ heldThrough[p]
        /\ LockHandle(q) \in prioHolders /\ LockHandle(q) \in gpuHolders

AllBlocked == \A p \in Procs : pc[p] \in {"gpu_wait", "prio_wait"}

\* C15: under the protocol, a contender that waits for the GPU lock while
\* no other contender holds it (workers' kernels may) is eventually granted
\* it, and the processes are never all blocked forever.
C15_PriorityProgress ==
    /\ \A p \in Procs :
         (pc[p] = "gpu_wait" /\ \A q \in Procs : LockHandle(q) \notin gpuHolders)
             ~> (LockHandle(p) \in gpuHolders)
    /\ AllBlocked ~> ~AllBlocked

\* C15 witness: a contender holds the priority lock and the GPU lock, and a
\* worker had its cached kernel preempted.
C15_Witness ==
    \E p, q \in Procs :
        /\ LockHandle(p) \in prioHolders /\ LockHandle(p) \in gpuHolders
        /\ ~priority[q] /\ prevYield[q]

\* C16: one with() calls the construct function at most once and f at most
\* once; it constructs only with the cache absent; a kernel cached at the
\* start of a call that does not yield is the kernel f is given, with no
\* construction; f is given a present kernel.
C16_NoRetryAndReuse ==
    \A p \in Procs :
        /\ nCons[p] <= 1
        /\ nOps[p] <= 1
        /\ nCons[p] = 1 => kStart[p] = None \/ sb[p]
        /\ (kStart[p] # None /\ ~sb[p] /\ pc[p] \in {"inop", "done"}) =>
              nCons[p] = 0 /\ nOps[p] = 1 /\ kInv[p] = kStart[p]
        /\ nOps[p] = 1 => kInv[p] # None

\* C16 witness: a with() that began with a cached kernel and did not yield
\* has returned, having run f on that kernel without constructing.
C16_Witness ==
    \E p \in Procs :
        /\ Returned(p) /\ kStart[p] # None /\ ~sb[p]
        /\ nCons[p] = 0 /\ nOps[p] = 1 /\ kInv[p] = kStart[p]

\* C17: new() leaves the cache absent, calls no construct function and
\* touches neither lock; after new(), no step changes the priority flag.
C17_LazyAndImmutable ==
    [][\A p \in Procs :
          /\ (pc[p] = "start" /\ pc'[p] # "start") =>
                /\ kernel'[p] = None
                /\ nCons'[p] = 0 /\ ~everSome'[p]
                /\ locks' = locks
          /\ pc[p] # "start" => priority'[p] = priority[p]]_vars

\* C17 witness: a resource made with priority = true first had the
\* construct function called inside a with(), which has returned.
C17_Witness ==
    \E p \in Procs :
        Returned(p) /\ priority[p] /\ nCons[p] = 1 /\ everSome[p]

\* C18: when with() has returned, the cache is absent if and only if the
\* value returned is GPUTaken.
C18_ResultAgreesWithCache ==
    \A p \in Procs :
        Returned(p) => (kernel[p] = None <=> ret[p] = "GPUTaken")

\* C18 witness: with() returned an error other than GPUTaken from f, the
\* kernel still cached.
C18_Witness ==
    \E p \in Procs :
        Returned(p) /\ ret[p] = "Other" /\ kernel[p] # None /\ nCons[p] = 1

\* C19: the cached kernel of a priority = true resource becomes absent only
\* in the step in which its own f returns GPUTaken, and a with() of it that
\* finds the cache absent calls the construct function.
C19_PriorityNeverPreempted ==
    [][\A p \in Procs :
          priority[p] =>
              /\ (kernel[p] # None /\ kernel'[p] = None) =>
                    pc[p] = "inop" /\ opRes'[p] = "GPUTaken"
              /\ (pc[p] = "branch" /\ pc'[p] # "branch" /\ kernel[p] = None)
                    => nCons'[p] = 1]_vars

\* C19 witness: a priority = true resource kept its kernel through a with()
\* that returned while another process holds the priority lock.
C19_Witness ==
    \E p \in Procs :
        /\ priority[p] /\ Returned(p) /\ OtherPriorityLock(p)
        /\ kStart[p] # None /\ kernel[p] = kStart[p]

====
